---- MODULE Spec2Model ----
(***************************************************************************)
(* Model of the etl_pipeline crawler (src/src/etl_pipeline): the URL       *)
(* helpers of utils.py, the retrying fetcher and the level-by-level BFS    *)
(* of extractor.py, and the page parser of transformer.py with the         *)
(* PageData validator of models.py.                                        *)
(*                                                                         *)
(* A string is a sequence of tokens.  The delimiters ":" "/" "#" "?" ";"   *)
(* are tokens of their own; every other token is a word, a run of          *)
(* characters that holds no delimiter ("https", "en.wikipedia.org",        *)
(* "wiki", "A"); no two words are adjacent.  The empty string is the empty *)
(* sequence.                                                               *)
(***************************************************************************)
EXTENDS Integers, Sequences, FiniteSets, TLC

----------------------------------------------------------------------------
(* Strings                                                                 *)

\* an assignment x = e: e is evaluated once, and Body reads the value
Let(e, Body(_)) == CHOOSE r \in {Body(x) : x \in {e}} : TRUE

Delims == {":", "/", "#", "?", ";"}

IsWord(t) == t \notin Delims

\* s.find(t, from): the first index >= from that holds t, 0 when there is none
Find(s, t, from) ==
    IF \E i \in from..Len(s) : s[i] = t
    THEN CHOOSE i \in from..Len(s) : s[i] = t /\ \A j \in from..(i - 1) : s[j] # t
    ELSE 0

\* s.rfind(t): the last index that holds t, 0 when there is none
RFind(s, t) ==
    IF \E i \in 1..Len(s) : s[i] = t
    THEN CHOOSE i \in 1..Len(s) : s[i] = t /\ \A j \in (i + 1)..Len(s) : s[j] # t
    ELSE 0

\* s[a-1:b] of Python, 1-based and inclusive; empty when a > b
Slice(s, a, b) == IF a > b THEN <<>> ELSE SubSeq(s, a, b)

StartsWith(s, p) == Len(s) >= Len(p) /\ SubSeq(s, 1, Len(p)) = p

\* s.find(p) for a substring p: the first index where p occurs, 0 when none
FindSub(s, p) ==
    LET hits == {i \in 1..(Len(s) - Len(p) + 1) : SubSeq(s, i, i + Len(p) - 1) = p}
    IN  IF hits = {} THEN 0 ELSE CHOOSE i \in hits : \A j \in hits : i <= j

\* s.rstrip(t)
RStrip(s, t) ==
    LET kept == {i \in 1..Len(s) : s[i] # t}
    IN  IF kept = {} THEN <<>>
        ELSE SubSeq(s, 1, CHOOSE i \in kept : \A j \in kept : j <= i)

\* str.lower() on a word
Lower(w) ==
    CASE w = "File" -> "file"
      [] w = "Talk" -> "talk"
      [] w = "HTTPS" -> "https"
      [] w = "Citation" -> "citation"
      [] w = "Needed" -> "needed"
      [] w = "S" -> "s"
      [] w = "A" -> "a"
      [] w = "B" -> "b"
      [] w = "C" -> "c"
      [] OTHER -> w

----------------------------------------------------------------------------
(* urllib.parse, as utils.py and transformer.py call it                    *)

uses_params == {"", "ftp", "http", "https", "sftp"}
uses_relative == {"", "ftp", "http", "https", "file", "sftp"}
uses_netloc == {"", "ftp", "http", "https", "file", "sftp"}

\* urlsplit(url, scheme); a scheme is kept as a string, "" when absent:
\* the scheme is split off, then //netloc, then #fragment, then ?query
urlsplit(url, default_scheme) ==
    LET hasScheme == Len(url) >= 2 /\ url[2] = ":" /\ IsWord(url[1])
        sch == IF hasScheme THEN Lower(url[1]) ELSE default_scheme
    IN
    Let(IF hasScheme THEN Slice(url, 3, Len(url)) ELSE url, LAMBDA u1 :
    LET hasNetloc == Len(u1) >= 2 /\ u1[1] = "/" /\ u1[2] = "/"
        ends == {i \in 3..Len(u1) : u1[i] \in {"/", "?", "#"}}
    IN
    Let(IF ends = {} THEN Len(u1) + 1
        ELSE CHOOSE i \in ends : \A j \in ends : i <= j, LAMBDA delim :
    Let(IF hasNetloc THEN Slice(u1, delim, Len(u1)) ELSE u1, LAMBDA u2 :
    Let(Find(u2, "#", 1), LAMBDA h :
    Let(IF h = 0 THEN u2 ELSE Slice(u2, 1, h - 1), LAMBDA u3 :
    Let(Find(u3, "?", 1), LAMBDA q :
        [scheme |-> sch,
         netloc |-> IF hasNetloc THEN Slice(u1, 3, delim - 1) ELSE <<>>,
         path |-> IF q = 0 THEN u3 ELSE Slice(u3, 1, q - 1),
         query |-> IF q = 0 THEN <<>> ELSE Slice(u3, q + 1, Len(u3)),
         fragment |-> IF h = 0 THEN <<>> ELSE Slice(u2, h + 1, Len(u2))]))))))

\* _splitparams(url): the ";" looked for in the last path segment only
splitparams(url) ==
    Let(IF Find(url, "/", 1) # 0
        THEN Let(RFind(url, "/"), LAMBDA from : Find(url, ";", from))
        ELSE Find(url, ";", 1), LAMBDA i :
        IF i = 0 THEN <<url, <<>> >>
        ELSE <<Slice(url, 1, i - 1), Slice(url, i + 1, Len(url))>>)

urlparse(url, default_scheme) ==
    Let(urlsplit(url, default_scheme), LAMBDA r :
    Let(IF r.scheme \in uses_params /\ Find(r.path, ";", 1) # 0
        THEN splitparams(r.path) ELSE <<r.path, <<>> >>, LAMBDA sp :
        [scheme |-> r.scheme, netloc |-> r.netloc, path |-> sp[1],
         params |-> sp[2], query |-> r.query, fragment |-> r.fragment]))

urlunparse(p) ==
    Let(IF p.params # <<>> THEN p.path \o <<";">> \o p.params ELSE p.path,
        LAMBDA url0 :
    LET slashed == Len(url0) >= 2 /\ url0[1] = "/" /\ url0[2] = "/"
        withNet == p.netloc # <<>>
                   \/ (p.scheme # "" /\ p.scheme \in uses_netloc /\ ~slashed)
    IN
    Let(IF withNet
        THEN <<"/", "/">> \o p.netloc
             \o (IF url0 # <<>> /\ url0[1] # "/" THEN <<"/">> ELSE <<>>)
             \o url0
        ELSE url0, LAMBDA url1 :
    Let(IF p.scheme # "" THEN <<p.scheme, ":">> \o url1 ELSE url1, LAMBDA url2 :
    Let(IF p.query # <<>> THEN url2 \o <<"?">> \o p.query ELSE url2, LAMBDA url3 :
        IF p.fragment # <<>> THEN url3 \o <<"#">> \o p.fragment ELSE url3))))

\* runs of "/" made one, as the filter over the relative segments does;
\* a trailing empty segment is kept
CollapseSlashes(s) ==
    LET kept == {i \in 1..Len(s) : ~(s[i] = "/" /\ i < Len(s) /\ s[i + 1] = "/")}
        nth(k) == CHOOSE i \in kept : Cardinality({j \in kept : j <= i}) = k
    IN  [k \in 1..Cardinality(kept) |-> s[nth(k)]]

\* urljoin(base, url); the strings of the model hold no "." or ".." segment
urljoin(base, url) ==
    IF base = <<>> THEN url
    ELSE IF url = <<>> THEN base
    ELSE
    Let(urlparse(base, ""), LAMBDA b :
    Let(urlparse(url, b.scheme), LAMBDA u :
        IF u.scheme # b.scheme \/ u.scheme \notin uses_relative THEN url
        ELSE IF u.scheme \in uses_netloc /\ u.netloc # <<>> THEN urlunparse(u)
        ELSE
        LET netloc == IF u.scheme \in uses_netloc THEN b.netloc ELSE u.netloc
        IN  IF u.path = <<>> /\ u.params = <<>>
            THEN Let([scheme |-> u.scheme, netloc |-> netloc,
                      path |-> b.path, params |-> b.params,
                      query |-> IF u.query = <<>> THEN b.query ELSE u.query,
                      fragment |-> u.fragment], LAMBDA p : urlunparse(p))
            ELSE
            LET last == RFind(b.path, "/")
                baseDir == IF b.path = <<>> THEN <<"/">> ELSE Slice(b.path, 1, last)
            IN
            Let(IF u.path # <<>> /\ u.path[1] = "/" THEN u.path
                ELSE Let(baseDir \o u.path, LAMBDA s : CollapseSlashes(s)),
                LAMBDA joined :
            Let([scheme |-> u.scheme, netloc |-> netloc,
                 path |-> IF joined = <<>> THEN <<"/">> ELSE joined,
                 params |-> u.params,
                 query |-> u.query, fragment |-> u.fragment],
                LAMBDA p : urlunparse(p)))))

----------------------------------------------------------------------------
(* utils.py                                                                *)

WIKI_BASE == <<"https", ":", "/", "/", "en.wikipedia.org">>

WIKI_PREFIX == <<"/", "wiki", "/">>

SKIP_PREFIXES ==
    {"Wikipedia", "Help", "File", "Template", "Category", "Special",
     "Talk", "Portal", "User", "Draft", "Media"}

normalize_url(url) ==
    Let(urlparse(url, ""), LAMBDA parsed0 :
    Let(IF parsed0.netloc = <<>>
        THEN Let(urljoin(WIKI_BASE \o <<"/">>, url),
                 LAMBDA full : urlparse(full, ""))
        ELSE parsed0, LAMBDA parsed :
    Let(RStrip(parsed.path, "/"), LAMBDA stripped :
    LET path == IF stripped = <<>> THEN <<"/">> ELSE stripped
    IN
    Let(<<(IF parsed.scheme = "" THEN "https" ELSE parsed.scheme)>>
        \o <<":", "/", "/">>
        \o (IF parsed.netloc = <<>> THEN <<"en.wikipedia.org">>
            ELSE parsed.netloc)
        \o path, LAMBDA clean :
    Let(Find(clean, "#", 1), LAMBDA h :
        IF ~StartsWith(path, WIKI_PREFIX) THEN <<>>
        ELSE IF h = 0 THEN clean ELSE Slice(clean, 1, h - 1))))))

\* is_followable with the namespace prefix compared without regard to case
is_followableAnyCase(url) ==
    IF url = <<>> \/ ~StartsWith(url, WIKI_BASE \o WIKI_PREFIX) THEN FALSE
    ELSE
    Let(FindSub(url, WIKI_PREFIX), LAMBDA w :
    Let(Slice(url, w + Len(WIKI_PREFIX), Len(url)), LAMBDA slug :
    Let(Find(slug, ":", 1), LAMBDA c :
        IF c # 0 /\ c = 2 /\ Lower(slug[1]) \in {Lower(p) : p \in SKIP_PREFIXES}
        THEN FALSE ELSE TRUE)))

is_followable(url) ==
    IF url = <<>> \/ ~StartsWith(url, WIKI_BASE \o WIKI_PREFIX) THEN FALSE
    ELSE
    Let(FindSub(url, WIKI_PREFIX), LAMBDA w :
    Let(Slice(url, w + Len(WIKI_PREFIX), Len(url)), LAMBDA slug :
    Let(Find(slug, ":", 1), LAMBDA c :
        IF c # 0 /\ c = 2 /\ slug[1] \in SKIP_PREFIXES THEN FALSE ELSE TRUE)))

----------------------------------------------------------------------------
(* Bounds of the model                                                     *)

MaxDepth == 3          \* config.max_depth ranges over 0..MaxDepth
MaxLinks == 2          \* config.max_links_per_page ranges over 0..MaxLinks
MaxConcurrency == 2    \* config.concurrency ranges over 1..MaxConcurrency
MaxRetries == 2        \* config.max_retries ranges over 0..MaxRetries
MaxAnchors == 2        \* anchors in the body region of one document
MaxFailures == 2       \* failed client.get() calls the network adds to one run
LiveDepth == 1         \* config.max_depth ranges over 0..LiveDepth under LiveSpec
MaxUrl == 3            \* tokens after the prefix of a string handed to a URL helper
MaxAttempts == 4       \* config.max_retries ranges over 0..MaxAttempts in a call of _fetch_with_retry
MaxPages == 2          \* pages handed to load_to_db
MaxLoadLinks == 2      \* links handed to load_to_db

----------------------------------------------------------------------------
(* The web the crawler reads                                               *)

None == <<>>

Article(w) == WIKI_BASE \o WIKI_PREFIX \o <<w>>

\* the values of config.start_url: an article URL and a URL outside /wiki/
Seeds == {Article("S"), <<"/", "S">>}

\* the href attributes a document may hold
Hrefs ==
    {<<"/", "wiki", "/", "A">>,
     <<"/", "wiki", "/", "B">>,
     <<"/", "wiki", "/", "C", ";", "p", "/">>,
     <<"/", "wiki", "/", "File", ":", "X">>}

SeqsUpTo(S, n) == UNION {[1..k -> S] : k \in 0..n}

\* a fetched document: its h1#firstHeading text, whether it has a
\* div#mw-content-text, and the hrefs of the anchors inside that div
Docs ==
    {[title |-> t, hasBody |-> FALSE, anchors |-> <<>>] : t \in {<<>>, <<"T">>}}
    \cup {[title |-> t, hasBody |-> TRUE, anchors |-> a] :
            t \in {<<>>, <<"T">>}, a \in SeqsUpTo(Hrefs, MaxAnchors)}

\* what one client.get() gives: a status code, or 0 for a transport error
\* (httpx.TransportError, a subclass of httpx.HTTPError)
Responses == {200, 404, 503} \cup {0}

Range(s) == {s[i] : i \in 1..Len(s)}

Take(s, n) == IF n >= Len(s) THEN s ELSE SubSeq(s, 1, n)

----------------------------------------------------------------------------
(* models.py and transformer.py                                            *)

\* PageData: title min_length=1, word_count ge=0, depth ge=0 le=2
PageDataValid(url, title, word_count, depth) ==
    /\ Len(title) >= 1
    /\ word_count >= 0
    /\ depth >= 0
    /\ depth <= 2

\* a loop that does not remember the targets it has returned
RECURSIVE ExtractLinksNoSeen(_, _)
ExtractLinksNoSeen(anchors, seen) ==
    IF anchors = <<>> THEN <<>>
    ELSE
    Let(Head(anchors), LAMBDA href :
    Let(Tail(anchors), LAMBDA rest :
    Let(urljoin(WIKI_BASE, href), LAMBDA full :
    Let(normalize_url(full), LAMBDA normalized :
        IF ~is_followable(normalized) THEN ExtractLinksNoSeen(rest, seen)
        ELSE <<normalized>> \o ExtractLinksNoSeen(rest, seen)))))

\* the loop of _extract_links_with_text over the selected anchors
RECURSIVE ExtractLinks(_, _)
ExtractLinks(anchors, seen) ==
    IF anchors = <<>> THEN <<>>
    ELSE
    Let(Head(anchors), LAMBDA href :
    Let(Tail(anchors), LAMBDA rest :
    Let(urljoin(WIKI_BASE, href), LAMBDA full :
    Let(normalize_url(full), LAMBDA normalized :
        IF ~is_followable(normalized) THEN ExtractLinks(rest, seen)
        ELSE IF normalized \in seen THEN ExtractLinks(rest, seen)
        ELSE Let(seen \cup {normalized}, LAMBDA seen1 :
                 <<normalized>> \o ExtractLinks(rest, seen1))))))

\* content.select("a[href^='/wiki/']")
RECURSIVE SelectWikiAnchors(_)
SelectWikiAnchors(anchors) ==
    IF anchors = <<>> THEN <<>>
    ELSE
    Let(Tail(anchors), LAMBDA rest :
        IF StartsWith(Head(anchors), WIKI_PREFIX)
        THEN <<Head(anchors)>> \o SelectWikiAnchors(rest)
        ELSE SelectWikiAnchors(rest))

extract_links_with_text(doc) ==
    IF ~doc.hasBody THEN <<>>
    ELSE Let(SelectWikiAnchors(doc.anchors), LAMBDA as : ExtractLinks(as, {}))

\* extract_links_with_text, tabulated over the documents of the model
LinkData == [doc \in Docs |-> extract_links_with_text(doc)]

\* the strings fetch_one can be handed: a seed, or a target parse_page found
FrontierUrls == Seeds \cup UNION {Range(LinkData[doc]) : doc \in Docs}

\* normalize_url, tabulated over those strings
Normalized == [url \in FrontierUrls |-> normalize_url(url)]

\* url.split("/wiki/", 1)[-1], the title when the heading is missing
TitleFallback(url) ==
    LET w == FindSub(url, WIKI_PREFIX)
    IN  IF w = 0 THEN url ELSE Slice(url, w + Len(WIKI_PREFIX), Len(url))

\* parse_page: [page, links, followable], page a sequence of at most one record
parse_page(doc, url, depth, parent_url) ==
    LET link_data == LinkData[doc]
        title == IF doc.title # <<>> THEN doc.title ELSE TitleFallback(url)
        word_count == IF doc.hasBody THEN 1 ELSE 0
    IN  IF ~PageDataValid(url, title, word_count, depth)
        THEN [page |-> <<>>, links |-> <<>>, followable |-> <<>>]
        ELSE [page |-> <<[url |-> url, depth |-> depth, parent_url |-> parent_url]>>,
              links |-> [k \in 1..Len(link_data) |->
                            [source_url |-> url, target_url |-> link_data[k]]],
              followable |-> link_data]

----------------------------------------------------------------------------
(* extractor.py: the state of one crawl() call                             *)

VARIABLES
    config,         \* PipelineConfig, frozen
    all_pages,      \* list[PageData]
    all_links,      \* list[PageLink]
    all_errors,     \* list[str], kept as [kind, url]
    visited,        \* set[str]
    current_level,  \* list of (url, depth, parent)
    task,           \* the fetch_one coroutines of this level, in gather order
    sem_value,      \* asyncio.Semaphore._value
    waiters,        \* asyncio.Semaphore._waiters, task indices in FIFO order
    crawl_pc,       \* "gather" while a level runs, "done" after the return
    claim_log,      \* history: every visited.add(normalized), in order
    failures,       \* the failed client.get() calls so far
    call            \* the last call of a function made outside a crawl

vars == <<config, all_pages, all_links, all_errors, visited, current_level,
          task, sem_value, waiters, crawl_pc, claim_log, failures, call>>

Configs ==
    [start_url : Seeds,
     max_depth : 0..MaxDepth,
     max_links_per_page : 0..MaxLinks,
     concurrency : 1..MaxConcurrency,
     max_retries : 0..MaxRetries]

\* no function was called yet
NoCall == [fn |-> "none"]

EmptyOut == [page |-> <<>>, links |-> <<>>, followable |-> <<>>, errs |-> <<>>]

\* a coroutine that gather() has created and the loop has not yet run
NewTask ==
    [pc |-> "pending", normalized |-> <<>>, attempt |-> 0, trace |-> <<>>,
     fetch |-> "none", out |-> EmptyOut]

NewTasks(level) == [i \in 1..Len(level) |-> NewTask]

Init ==
    /\ config \in Configs
    /\ all_pages = <<>>
    /\ all_links = <<>>
    /\ all_errors = <<>>
    /\ visited = {}
    /\ current_level = <<[url |-> config.start_url, depth |-> 0, parent |-> None]>>
    /\ task = NewTasks(current_level)
    /\ sem_value = config.concurrency
    /\ waiters = <<>>
    /\ crawl_pc = "gather"
    /\ claim_log = <<>>
    /\ failures = 0
    /\ call = NoCall

----------------------------------------------------------------------------
(* fetch_one and _fetch_with_retry                                         *)

RETRYABLE == {429, 500, 502, 503}

\* attempt < config.max_retries - 1
MayRetry(attempt) == attempt < config.max_retries - 1

\* a backoff that grows by one time unit per attempt
BackoffLinear(attempt) == attempt + 1

\* delay = 2**attempt
Backoff(attempt) == 2 ^ attempt

\* fetch_one without its visited check
AlreadyVisitedNever(normalized) == FALSE

\* normalized in visited
AlreadyVisited(normalized) == normalized \in visited

\* a gate that admits every caller
sem_lockedNever == FALSE

\* Semaphore.locked()
sem_locked == sem_value = 0 \/ waiters # <<>>

\* fetch_one swallowing the exception of the fetcher: no error is recorded
FetchOneOutSilent(fetch, doc, normalized, depth, parent) ==
    IF fetch # "response" THEN EmptyOut
    ELSE LET r == parse_page(doc, normalized, depth, parent)
         IN  IF r.page = <<>>
             THEN [EmptyOut EXCEPT
                     !.errs = <<[kind |-> "validation", url |-> normalized]>>]
             ELSE [page |-> r.page, links |-> r.links,
                   followable |-> r.followable, errs |-> <<>>]

\* the outcome of fetch_one once _fetch_with_retry is over:
\* fetch is "response", "no_response" (None returned) or "raised"
FetchOneOut(fetch, doc, normalized, depth, parent) ==
    IF fetch = "no_response"
    THEN [EmptyOut EXCEPT !.errs = <<[kind |-> "no_response", url |-> normalized]>>]
    ELSE IF fetch = "raised"
    THEN [EmptyOut EXCEPT !.errs = <<[kind |-> "fetch", url |-> normalized]>>]
    ELSE LET r == parse_page(doc, normalized, depth, parent)
         IN  IF r.page = <<>>
             THEN [EmptyOut EXCEPT
                     !.errs = <<[kind |-> "validation", url |-> normalized]>>]
             ELSE [page |-> r.page, links |-> r.links,
                   followable |-> r.followable, errs |-> <<>>]

\* a release that wakes no waiter
ReleasedNoWake(tk) == tk

\* Semaphore.release() then _wake_up_next(): the slot goes to the first waiter
Released(tk) ==
    IF waiters # <<>> THEN [tk EXCEPT ![Head(waiters)].pc = "delay"] ELSE tk

\* a fetch_one that gives its slot back only when it returns without an
\* exception (acquire and release around the body, no "async with")
FinishLeakOnRaise(i, trace, fetch, out) ==
    IF fetch = "raised"
    THEN /\ task' = [task EXCEPT ![i].pc = "done", ![i].trace = trace,
                                 ![i].fetch = fetch, ![i].out = out]
         /\ UNCHANGED <<waiters, sem_value>>
    ELSE /\ task' = Released([task EXCEPT ![i].pc = "done", ![i].trace = trace,
                                          ![i].fetch = fetch, ![i].out = out])
         /\ waiters' = IF waiters # <<>> THEN Tail(waiters) ELSE waiters
         /\ sem_value' = IF waiters # <<>> THEN sem_value ELSE sem_value + 1

\* fetch_one returns from inside "async with sem"
Finish(i, trace, fetch, out) ==
    /\ task' = Released([task EXCEPT ![i].pc = "done", ![i].trace = trace,
                                     ![i].fetch = fetch, ![i].out = out])
    /\ waiters' = IF waiters # <<>> THEN Tail(waiters) ELSE waiters
    /\ sem_value' = IF waiters # <<>> THEN sem_value ELSE sem_value + 1

AllStarted == \A j \in DOMAIN task : task[j].pc # "pending"

\* the first run of coroutine i: lines 104-109, up to the first suspension
Start(i) ==
    /\ crawl_pc = "gather"
    /\ task[i].pc = "pending"
    /\ \A j \in 1..(i - 1) : task[j].pc # "pending"
    /\ LET normalized == Normalized[current_level[i].url]
       IN  IF normalized = <<>> \/ AlreadyVisited(normalized)
           THEN /\ task' = [task EXCEPT ![i].pc = "done"]
                /\ UNCHANGED <<visited, claim_log, sem_value, waiters>>
           ELSE /\ visited' = visited \cup {normalized}
                /\ claim_log' = Append(claim_log, normalized)
                /\ IF ~sem_locked
                   THEN /\ sem_value' = sem_value - 1
                        /\ task' = [task EXCEPT ![i].pc = "delay",
                                                ![i].normalized = normalized]
                        /\ UNCHANGED waiters
                   ELSE /\ waiters' = Append(waiters, i)
                        /\ task' = [task EXCEPT ![i].pc = "waiting",
                                                ![i].normalized = normalized]
                        /\ UNCHANGED sem_value
    /\ UNCHANGED <<config, all_pages, all_links, all_errors, current_level, crawl_pc,
                   failures, call>>

\* asyncio.sleep(config.request_delay) is over; _fetch_with_retry is entered
DelayDone(i) ==
    /\ crawl_pc = "gather"
    /\ AllStarted
    /\ task[i].pc = "delay"
    /\ IF config.max_retries > 0
       THEN /\ task' = [task EXCEPT ![i].pc = "get"]
            /\ UNCHANGED <<sem_value, waiters>>
       ELSE Finish(i, task[i].trace, "no_response",
                   FetchOneOut("no_response", <<>>, task[i].normalized,
                               current_level[i].depth, current_level[i].parent))
    /\ UNCHANGED <<config, all_pages, all_links, all_errors, visited,
                   current_level, crawl_pc, claim_log, failures, call>>

\* client.get() of attempt task[i].attempt completes with r
Get(i, r) ==
    /\ crawl_pc = "gather"
    /\ AllStarted
    /\ task[i].pc = "get"
    /\ r # 200 => failures < MaxFailures
    /\ failures' = IF r # 200 THEN failures + 1 ELSE failures
    /\ LET a == task[i].attempt
           got == Append(task[i].trace, <<"get", r>>)
           level == current_level[i]
       IN  IF r \in RETRYABLE /\ MayRetry(a)
           THEN \* lines 35-46: sleep, continue
                /\ task' = [task EXCEPT ![i].pc = "backoff",
                              ![i].trace = Append(got, <<"sleep", Backoff(a)>>)]
                /\ UNCHANGED <<sem_value, waiters>>
           ELSE IF r = 200
           THEN \* line 57, then lines 115-127
                \E doc \in Docs :
                    Finish(i, got, "response",
                           FetchOneOut("response", doc, task[i].normalized,
                                       level.depth, level.parent))
           ELSE IF MayRetry(a)
           THEN \* lines 59-69: raise_for_status() or the transport raised
                /\ task' = [task EXCEPT ![i].pc = "backoff",
                              ![i].trace = Append(got, <<"sleep", Backoff(a)>>)]
                /\ UNCHANGED <<sem_value, waiters>>
           ELSE \* the last attempt failed: lines 71-72, then lines 128-131
                Finish(i, got, "raised",
                       FetchOneOut("raised", <<>>, task[i].normalized,
                                   level.depth, level.parent))
    /\ UNCHANGED <<config, all_pages, all_links, all_errors, visited,
                   current_level, crawl_pc, claim_log, call>>

\* a fetcher that gives its slot up for the backoff sleep: when the sleep is
\* over and a task is waiting at the gate, the slot goes to that task and this
\* one queues up again
BackoffDoneHandOver(i) ==
    /\ crawl_pc = "gather"
    /\ AllStarted
    /\ task[i].pc = "backoff"
    /\ IF waiters = <<>>
       THEN /\ task' = [task EXCEPT ![i].pc = "get", ![i].attempt = @ + 1]
            /\ UNCHANGED waiters
       ELSE /\ task' = [task EXCEPT ![i].pc = "waiting", ![i].attempt = @ + 1,
                                    ![Head(waiters)].pc = "delay"]
            /\ waiters' = Append(Tail(waiters), i)
    /\ UNCHANGED <<config, all_pages, all_links, all_errors, visited,
                   current_level, sem_value, crawl_pc, claim_log,
                   failures, call>>

\* asyncio.sleep(delay) is over: the next iteration of the for loop
BackoffDone(i) ==
    /\ crawl_pc = "gather"
    /\ AllStarted
    /\ task[i].pc = "backoff"
    /\ task' = [task EXCEPT ![i].pc = "get", ![i].attempt = @ + 1]
    /\ UNCHANGED <<config, all_pages, all_links, all_errors, visited,
                   current_level, sem_value, waiters, crawl_pc, claim_log,
                   failures, call>>

----------------------------------------------------------------------------
(* crawl: lines 136-147, after gather() has returned                       *)

\* the depth test off by one: d <= config.max_depth
MayExpandLe(d) == d <= config.max_depth

\* d < config.max_depth
MayExpand(d) == d < config.max_depth

\* the inner for loop, lines 142-145: the URLs one page adds to next_level
RECURSIVE FilterNew(_, _)
FilterNew(urls, seen) ==
    IF urls = <<>> THEN <<>>
    ELSE
    Let(Head(urls), LAMBDA link_url :
    Let(Tail(urls), LAMBDA rest :
        IF link_url \in seen THEN FilterNew(rest, seen)
        ELSE Let(seen \cup {link_url}, LAMBDA seen1 :
                 <<link_url>> \o FilterNew(rest, seen1))))

\* the visited filter applied before the truncation
NewLinksFilterFirst(followable, seen) ==
    Take(FilterNew(followable, seen), config.max_links_per_page)

NewLinks(followable, seen) ==
    FilterNew(Take(followable, config.max_links_per_page), seen)

\* an aggregation that keeps of each page only the links it may follow
RECURSIVE AggregateLimited(_, _)
AggregateLimited(i, acc) ==
    IF i > Len(current_level) THEN acc
    ELSE
    LET o == task[i].out
        d == current_level[i].depth
    IN
    Let(IF o.page # <<>> /\ MayExpand(d)
        THEN NewLinks(o.followable, visited \cup acc.next_level_set)
        ELSE <<>>, LAMBDA new :
    Let(IF o.page = <<>> THEN [acc EXCEPT !.errors = @ \o o.errs]
        ELSE [acc EXCEPT
                !.errors = @ \o o.errs,
                !.pages = @ \o o.page,
                !.links = @ \o IF MayExpand(d)
                               THEN Take(o.links, config.max_links_per_page)
                               ELSE <<>>,
                !.next_level_set = @ \cup Range(new),
                !.next_level = @ \o
                    [k \in 1..Len(new) |->
                        [url |-> new[k], depth |-> d + 1,
                         parent |-> o.page[1].url]]], LAMBDA acc1 :
        AggregateLimited(i + 1, acc1)))

RECURSIVE Aggregate(_, _)
Aggregate(i, acc) ==
    IF i > Len(current_level) THEN acc
    ELSE
    LET o == task[i].out
        d == current_level[i].depth
    IN
    Let(IF o.page # <<>> /\ MayExpand(d)
        THEN NewLinks(o.followable, visited \cup acc.next_level_set)
        ELSE <<>>, LAMBDA new :
    Let(IF o.page = <<>> THEN [acc EXCEPT !.errors = @ \o o.errs]
        ELSE [acc EXCEPT
                !.errors = @ \o o.errs,
                !.pages = @ \o o.page,
                !.links = @ \o o.links,
                !.next_level_set = @ \cup Range(new),
                !.next_level = @ \o
                    [k \in 1..Len(new) |->
                        [url |-> new[k], depth |-> d + 1,
                         parent |-> o.page[1].url]]], LAMBDA acc1 :
        Aggregate(i + 1, acc1)))

\* a gather that returns as soon as one coroutine is done
GatherDoneAny == \E i \in DOMAIN task : task[i].pc = "done"

\* outs = await asyncio.gather(*tasks) returns: every coroutine is done
GatherDone == \A i \in DOMAIN task : task[i].pc = "done"

ProcessLevel ==
    /\ crawl_pc = "gather"
    /\ GatherDone
    /\ \E acc \in {Aggregate(1, [pages |-> all_pages, links |-> all_links,
                                  errors |-> all_errors, next_level_set |-> {},
                                  next_level |-> <<>>])} :
           /\ all_pages' = acc.pages
           /\ all_links' = acc.links
           /\ all_errors' = acc.errors
           /\ current_level' = acc.next_level
           /\ task' = NewTasks(acc.next_level)
           /\ crawl_pc' = IF acc.next_level = <<>> THEN "done" ELSE "gather"
    /\ UNCHANGED <<config, visited, sem_value, waiters, claim_log, failures, call>>

Next ==
    \/ \E i \in DOMAIN task : Start(i)
    \/ \E i \in DOMAIN task : DelayDone(i)
    \/ \E i \in DOMAIN task : \E r \in Responses : Get(i, r)
    \/ \E i \in DOMAIN task : BackoffDone(i)
    \/ ProcessLevel

Spec == Init /\ [][Next]_vars

\* the network answers every request (each client.get() has a timeout) and
\* every sleep ends, so a step that can be taken is taken
LiveInit == Init /\ config.max_depth <= LiveDepth

LiveSpec == LiveInit /\ [][Next]_vars /\ WF_vars(Next)

\* a visited set that outlives the call (a module-level set)
FreshVisitedKept == visited

\* visited: set[str] = set(), a local of crawl
FreshVisited == {}

\* crawl(config) is called again after an earlier call has returned, with a
\* configuration of its own (max_depth <= LiveDepth): lines 84-91 build the
\* state of the call from its argument alone
CrawlAgain ==
    /\ crawl_pc = "done"
    /\ \E c \in Configs :
          /\ c.max_depth <= LiveDepth
          /\ config' = c
          /\ current_level' = <<[url |-> c.start_url, depth |-> 0, parent |-> None]>>
          /\ sem_value' = c.concurrency
    /\ all_pages' = <<>>
    /\ all_links' = <<>>
    /\ all_errors' = <<>>
    /\ visited' = FreshVisited
    /\ task' = NewTasks(current_level')
    /\ waiters' = <<>>
    /\ crawl_pc' = "gather"
    /\ claim_log' = <<>>
    /\ failures' = 0
    /\ UNCHANGED call

RunsNext ==
    \/ Next
    \/ CrawlAgain

\* one call of crawl after another
RunsSpec == LiveInit /\ [][RunsNext]_vars

----------------------------------------------------------------------------
(* transformer.py: text cleaning and the document parse_page works on      *)
(*                                                                         *)
(* A text is a sequence of tokens too: "[" and "]", a digit, a blank " ",  *)
(* or a word.                                                              *)

MaxText == 6           \* tokens of a text handed to _clean_text

DIGITS == {"1"}

\* the subsequence of s at the indices of kept, in order
Keep(s, kept) ==
    LET nth(k) == CHOOSE i \in kept : Cardinality({j \in kept : j <= i}) = k
    IN  [k \in 1..Cardinality(kept) |-> s[nth(k)]]

\* s[a..b] matches \[\d+\]
MarkerAt(s, a, b) ==
    /\ b >= a + 2
    /\ s[a] = "[" /\ s[b] = "]"
    /\ \A j \in (a + 1)..(b - 1) : s[j] \in DIGITS

\* s[a..a+4] matches \[citation needed\], letter case ignored
PhraseAt(s, a) ==
    /\ a + 4 <= Len(s)
    /\ s[a] = "[" /\ Lower(s[a + 1]) = "citation" /\ s[a + 2] = " "
    /\ Lower(s[a + 3]) = "needed" /\ s[a + 4] = "]"

\* re.sub(r"\[\d+\]", "", text): one pass; no two matches overlap
SubMarkers(s) ==
    Keep(s, {i \in DOMAIN s :
                ~\E a, b \in DOMAIN s : MarkerAt(s, a, b) /\ a <= i /\ i <= b})

\* re.sub(r"\[citation needed\]", "", text, flags=re.IGNORECASE): one pass
SubPhrases(s) ==
    Keep(s, {i \in DOMAIN s :
                ~\E a \in DOMAIN s : PhraseAt(s, a) /\ a <= i /\ i <= a + 4})

\* re.sub(r"\s+", " ", text)
CollapseBlanks(s) ==
    Keep(s, {i \in DOMAIN s : ~(s[i] = " " /\ i > 1 /\ s[i - 1] = " ")})

\* text.strip()
Strip(s) ==
    LET solid == {i \in DOMAIN s : s[i] # " "}
    IN  IF solid = {} THEN <<>>
        ELSE SubSeq(s, CHOOSE i \in solid : \A j \in solid : i <= j,
                       CHOOSE i \in solid : \A j \in solid : j <= i)

clean_text(text) ==
    IF text = <<>> THEN <<>>
    ELSE
    Let(SubMarkers(text), LAMBDA t1 :
    Let(SubPhrases(t1), LAMBDA t2 :
    Let(CollapseBlanks(t2), LAMBDA t3 : Strip(t3))))

\* the tokens of the texts handed to _clean_text
TextTokens == {"[", "]", "1", " ", "Citation", "needed"}

Texts == SeqsUpTo(TextTokens, MaxText)

\* an element of div#mw-content-text: an anchor with its href and its text,
\* inside an element that _extract_content decomposes (boxed) or outside
Nodes == [href : Hrefs, boxed : BOOLEAN, text : {"x", "y"}]

\* a parsed document (soup): the heading text, whether the body region is
\* there, and the elements of the body region in document order
Soups ==
    {[title |-> t, hasBody |-> FALSE, nodes |-> <<>>] : t \in {<<>>, <<"T">>}}
    \cup {[title |-> t, hasBody |-> TRUE, nodes |-> n] :
            t \in {<<>>, <<"T">>}, n \in SeqsUpTo(Nodes, MaxAnchors)}

\* what the link harvest reads of a soup: every anchor of the body region
DocOf(soup) ==
    [title |-> soup.title, hasBody |-> soup.hasBody,
     anchors |-> [k \in DOMAIN soup.nodes |-> soup.nodes[k].href]]

\* tag.decompose() for the tags of content.select("script, style, ...")
decompose(nodes) == SelectSeq(nodes, LAMBDA n : ~n.boxed)

\* content.get_text(separator=" ", strip=True)
RECURSIVE get_text(_)
get_text(nodes) ==
    IF nodes = <<>> THEN <<>>
    ELSE IF Len(nodes) = 1 THEN <<nodes[1].text>>
    ELSE Let(Tail(nodes), LAMBDA rest : <<nodes[1].text, " ">> \o get_text(rest))

\* _extract_content on the soup parse_page has harvested the links from
extract_content(soup) ==
    IF ~soup.hasBody THEN <<>>
    ELSE Let(decompose(soup.nodes), LAMBDA left :
         Let(get_text(left), LAMBDA text : clean_text(text)))

----------------------------------------------------------------------------
(* The functions of utils.py, models.py, transformer.py and loader.py,     *)
(* called one at a time on arguments drawn from bounded sets               *)

crawl_vars == <<config, all_pages, all_links, all_errors, visited, current_level,
                task, sem_value, waiters, crawl_pc, claim_log, failures>>

\* the configuration the calls below are made under
LibConfig ==
    [start_url |-> Article("S"), max_depth |-> MaxDepth,
     max_links_per_page |-> MaxLinks, concurrency |-> MaxConcurrency,
     max_retries |-> MaxRetries]

LibInit == Init /\ config = LibConfig

\* one call is made in a behaviour
Idle == call.fn = "none"

\* parse_page(html, url, depth, parent_url=None, ...), content being the local
\* of line 108
CallParsePage ==
    /\ Idle
    /\ \E soup \in Soups, url \in {Article("S"), Article("A")}, depth \in 0..MaxDepth :
          call' = [fn |-> "parse_page", soup |-> soup, url |-> url, depth |-> depth,
                   ret |-> parse_page(DocOf(soup), url, depth, None),
                   content |-> extract_content(soup)]
    /\ UNCHANGED crawl_vars

\* _clean_text(text)
CallCleanText ==
    /\ Idle
    /\ \E text \in Texts : call' = [fn |-> "clean_text", text |-> text,
                                     ret |-> clean_text(text)]
    /\ UNCHANGED crawl_vars

\* the strings handed to normalize_url and is_followable: a prefix (none, the
\* article path, the canonical article prefix, the same on another host or
\* scheme) followed by at most MaxUrl tokens, no two words adjacent
UrlTokens == {"/", ":", "#", ";", "S", "File", "file"}

UrlPrefixes ==
    {<<>>, WIKI_PREFIX, WIKI_BASE \o WIKI_PREFIX,
     <<"https", ":", "/", "/", "example.com">> \o WIKI_PREFIX,
     <<"http", ":", "/", "/", "en.wikipedia.org">> \o WIKI_PREFIX}

WellFormed(s) == \A i \in 1..(Len(s) - 1) : ~(IsWord(s[i]) /\ IsWord(s[i + 1]))

UrlInputs ==
    {u \in {pre \o t : pre \in UrlPrefixes, t \in SeqsUpTo(UrlTokens, MaxUrl)} :
        WellFormed(u)}

\* normalize_url(url), and normalize_url of what it returned
CallNormalizeUrl ==
    /\ Idle
    /\ \E url \in UrlInputs : \E ret \in {normalize_url(url)} :
          call' = [fn |-> "normalize_url", url |-> url, ret |-> ret,
                   again |-> normalize_url(ret)]
    /\ UNCHANGED crawl_vars

\* is_followable(url)
CallIsFollowable ==
    /\ Idle
    /\ \E url \in UrlInputs :
          call' = [fn |-> "is_followable", url |-> url, ret |-> is_followable(url)]
    /\ UNCHANGED crawl_vars

\* PageData(url=..., title=..., word_count=..., depth=...): ret is whether the
\* constructor returns a record rather than raising ValidationError
CallPageData ==
    /\ Idle
    /\ \E url \in {<<>>, Article("S")}, title \in {<<>>, <<"T">>},
          word_count \in -1..1, depth \in -1..(MaxDepth + 1) :
          call' = [fn |-> "PageData", url |-> url, title |-> title,
                   word_count |-> word_count, depth |-> depth,
                   ret |-> PageDataValid(url, title, word_count, depth)]
    /\ UNCHANGED crawl_vars

\* load_to_db(db_path, pages, links, min_content_length=50)
DEFAULT_MIN_CONTENT_LENGTH == 50

\* the content of a page handed to the loader: empty, short, as long as the
\* default minimum, and one character longer
Contents == {[k \in 1..n |-> "c"] : n \in {0, 1, DEFAULT_MIN_CONTENT_LENGTH,
                                           DEFAULT_MIN_CONTENT_LENGTH + 1}}

MinContentLengths == {0, 1, DEFAULT_MIN_CONTENT_LENGTH}

LoadUrls == {Article("A"), Article("B")}

\* list[PageData]; url is the unique key of a PageRecord
LoadPages ==
    {ps \in SeqsUpTo([url : LoadUrls, title : {<<"T">>}, content : Contents],
                     MaxPages) :
        \A i, j \in DOMAIN ps : i # j => ps[i].url # ps[j].url}

\* list[PageLink]
LoadLinks ==
    SeqsUpTo([source_url : LoadUrls, target_url : LoadUrls \cup {Article("C")}],
             MaxLoadLinks)

\* the WHERE clause of production.pages with >= for >
InProductionGe(row, min_content_length) ==
    /\ row.title # None
    /\ row.content # <<>>
    /\ Len(row.content) >= min_content_length

\* the WHERE clause of production.pages
InProduction(row, min_content_length) ==
    /\ row.title # None
    /\ row.content # <<>>
    /\ Len(row.content) > min_content_length

\* A database: tab maps each table that exists to its rows in insertion
\* order; view_min holds the minimum the production views were created with
\* (none before the first load); raised is set when a statement failed
NewDb == [tab |-> <<>>, view_min |-> <<>>, raised |-> FALSE]

\* a load that does not drop the tables of the load before it
DropTableKeep(db, t) == db

\* DROP TABLE IF EXISTS t
DropTable(db, t) ==
    [db EXCEPT !.tab = [x \in (DOMAIN db.tab) \ {t} |-> db.tab[x]]]

\* CREATE TABLE t (...): fails when the table exists
CreateTable(db, t) ==
    IF t \in DOMAIN db.tab THEN [db EXCEPT !.raised = TRUE]
    ELSE [db EXCEPT !.tab = [x \in (DOMAIN db.tab) \cup {t} |->
                                IF x = t THEN <<>> ELSE db.tab[x]]]

\* _bulk_insert(conn, table, columns, rows); the lists of the model fit in
\* one chunk of BULK_CHUNK_SIZE rows
bulk_insert(db, t, rows) ==
    IF rows = <<>> THEN db ELSE [db EXCEPT !.tab[t] = @ \o rows]

\* CREATE OR REPLACE VIEW production.pages / production.page_links
CreateViews(db, min_content_length) ==
    [db EXCEPT !.view_min = <<min_content_length>>]

\* load_to_db(db_path, pages, links, min_content_length) on the database db
\* found at db_path: the statements of lines 56-157 in order; a statement
\* that fails ends the call
load_to_db_on(db, pages, links, min_content_length) ==
    Let(DropTable(db, "staging.pages"), LAMBDA d1 :
    Let(DropTable(d1, "staging.page_links"), LAMBDA d2 :
    Let(CreateTable(d2, "staging.pages"), LAMBDA d3 :
        IF d3.raised THEN d3
        ELSE
        Let(CreateTable(d3, "staging.page_links"), LAMBDA d4 :
        IF d4.raised THEN d4
        ELSE
        Let(bulk_insert(d4, "staging.pages", pages), LAMBDA d5 :
        Let(bulk_insert(d5, "staging.page_links", links), LAMBDA d6 :
            CreateViews(d6, min_content_length)))))))

\* what the tables and views of db hold; a row of production.page_links is a
\* row pl of staging.page_links joined with a row p1 and a row p2 of
\* production.pages, kept as their positions
Query(db) ==
    Let(db.tab["staging.page_links"], LAMBDA links :
    Let(SelectSeq(db.tab["staging.pages"],
                  LAMBDA row : InProduction(row, db.view_min[1])),
        LAMBDA production_pages :
        [staging_pages |-> db.tab["staging.pages"],
         staging_page_links |-> links,
         production_pages |-> production_pages,
         production_page_links |->
            {<<pl, p1, p2>> \in (DOMAIN links) \X (DOMAIN production_pages)
                                \X (DOMAIN production_pages) :
                /\ links[pl].source_url = production_pages[p1].url
                /\ links[pl].target_url = production_pages[p2].url}]))

\* load_to_db on a path that holds no database yet, and what the database
\* holds afterwards
load_to_db(pages, links, min_content_length) ==
    Let(load_to_db_on(NewDb, pages, links, min_content_length),
        LAMBDA db : Query(db))

CallLoadToDb ==
    /\ Idle
    /\ \E pages \in LoadPages, links \in LoadLinks,
          min_content_length \in MinContentLengths :
          call' = [fn |-> "load_to_db", pages |-> pages, links |-> links,
                   min_content_length |-> min_content_length,
                   ret |-> load_to_db(pages, links, min_content_length)]
    /\ UNCHANGED crawl_vars

\* the for loop of _fetch_with_retry(client, url, config), lines 28-73, from
\* iteration attempt on.  outcomes[k] is what the k-th client.get() gives;
\* st holds the trace so far and last_error, None or the attempt and status
\* of the exception caught last (a sequence of at most one record)
RECURSIVE FetchLoop(_, _, _, _)
FetchLoop(attempt, max_retries, outcomes, st) ==
    IF attempt >= max_retries
    THEN \* lines 71-73
         [trace |-> st.trace, error |-> st.last_error,
          result |-> IF st.last_error # None THEN "raised" ELSE "no_response"]
    ELSE
    Let(outcomes[attempt + 1], LAMBDA r :
    Let(Append(st.trace, <<"get", r>>), LAMBDA got :
    Let(Append(got, <<"sleep", Backoff(attempt)>>), LAMBDA slept :
        IF r \in RETRYABLE /\ attempt < max_retries - 1
        THEN \* lines 35-46
             Let([st EXCEPT !.trace = slept], LAMBDA st1 :
                 FetchLoop(attempt + 1, max_retries, outcomes, st1))
        ELSE IF r = 200
        THEN \* line 57
             [trace |-> got, error |-> None, result |-> "response"]
        ELSE \* lines 59-69: the transport or raise_for_status() raised
             Let([trace |-> IF attempt < max_retries - 1 THEN slept ELSE got,
                  last_error |-> <<[attempt |-> attempt, status |-> r]>>],
                 LAMBDA st1 :
                 FetchLoop(attempt + 1, max_retries, outcomes, st1)))))

fetch_with_retry(max_retries, outcomes) ==
    FetchLoop(0, max_retries, outcomes, [trace |-> <<>>, last_error |-> None])

\* _fetch_with_retry(client, url, config) against a server whose k-th answer
\* is outcomes[k]
CallFetchWithRetry ==
    /\ Idle
    /\ \E max_retries \in 0..MaxAttempts :
       \E outcomes \in [1..max_retries -> Responses] :
          call' = [fn |-> "fetch_with_retry", max_retries |-> max_retries,
                   outcomes |-> outcomes,
                   ret |-> fetch_with_retry(max_retries, outcomes)]
    /\ UNCHANGED crawl_vars

\* the lists of a load that another load follows
ReloadPages ==
    {ps \in LoadPages :
        \A k \in DOMAIN ps : Len(ps[k].content) = DEFAULT_MIN_CONTENT_LENGTH + 1}

ReloadLinks == {ls \in LoadLinks : Len(ls) <= 1}

\* load_to_db(db_path, P1, L1) and then load_to_db(db_path, P2, L2) on the
\* same path; ret is the database after the second call
CallLoadTwice ==
    /\ Idle
    /\ \E p1 \in ReloadPages, l1 \in ReloadLinks,
          p2 \in ReloadPages, l2 \in ReloadLinks :
          \E db1 \in {load_to_db_on(NewDb, p1, l1, DEFAULT_MIN_CONTENT_LENGTH)} :
             call' = [fn |-> "load_twice", first_pages |-> p1, first_links |-> l1,
                      pages |-> p2, links |-> l2,
                      ret |-> load_to_db_on(db1, p2, l2, DEFAULT_MIN_CONTENT_LENGTH)]
    /\ UNCHANGED crawl_vars

LibNext ==
    \/ CallLoadTwice
    \/ CallFetchWithRetry
    \/ CallLoadToDb
    \/ CallParsePage
    \/ CallCleanText
    \/ CallNormalizeUrl
    \/ CallIsFollowable
    \/ CallPageData

LibSpec == LibInit /\ [][LibNext]_vars

----------------------------------------------------------------------------
(* Properties                                                              *)

NoDuplicates(s) == \A i, j \in DOMAIN s : i # j => s[i] # s[j]

CountUrl(s, u) == Cardinality({k \in DOMAIN s : s[k].url = u})

\* the status codes of the client.get() calls of a trace, in order
RECURSIVE Gets(_)
Gets(trace) ==
    IF trace = <<>> THEN <<>>
    ELSE IF Head(trace)[1] = "get" THEN <<Head(trace)[2]>> \o Gets(Tail(trace))
    ELSE Gets(Tail(trace))

\* the backoff delays of a trace, in order
RECURSIVE Sleeps(_)
Sleeps(trace) ==
    IF trace = <<>> THEN <<>>
    ELSE IF Head(trace)[1] = "sleep" THEN <<Head(trace)[2]>> \o Sleeps(Tail(trace))
    ELSE Sleeps(Tail(trace))

Holders == {i \in DOMAIN task : task[i].pc \in {"delay", "get", "backoff"}}

\* task i claimed its URL and went through the gate
Claimed(i) == task[i].normalized # <<>>

\* task i was skipped because its URL was already visited
SkippedVisited(i) ==
    /\ task[i].pc = "done"
    /\ ~Claimed(i)
    /\ normalize_url(current_level[i].url) # <<>>

\* C1: no canonical URL is claimed for fetching more than once, and the page
\* stream holds at most one PageRecord per canonical URL, for every link graph
\* and every interleaving of the fetch_one tasks.
C1_ClaimedOnce ==
    /\ NoDuplicates(claim_log)
    /\ \A i, j \in DOMAIN all_pages : i # j => all_pages[i].url # all_pages[j].url
    /\ \A i, j \in DOMAIN task :
          i # j /\ Claimed(i) /\ Claimed(j) => task[i].normalized # task[j].normalized

\* a link back to a page that was already claimed reached fetch_one and was
\* skipped there, after at least two pages were returned
C1_Witness ==
    /\ Len(all_pages) >= 2
    /\ \E i \in DOMAIN task : SkippedVisited(i)

\* C2: every PageRecord of the page stream, and every PageRecord a task
\* returns, has a depth between 0 and config.max_depth.
C2_DepthBounded ==
    /\ \A k \in DOMAIN all_pages :
          all_pages[k].depth >= 0 /\ all_pages[k].depth <= config.max_depth
    /\ \A i \in DOMAIN task : \A k \in DOMAIN task[i].out.page :
          task[i].out.page[k].depth >= 0
          /\ task[i].out.page[k].depth <= config.max_depth

\* the crawl is over, a page at depth max_depth > 0 was returned, and one of
\* its links leads to a URL that was never claimed
C2_Witness ==
    /\ crawl_pc = "done"
    /\ config.max_depth >= 1
    /\ \E k \in DOMAIN all_pages :
          /\ all_pages[k].depth = config.max_depth
          /\ \E l \in DOMAIN all_links :
                /\ all_links[l].source_url = all_pages[k].url
                /\ normalize_url(all_links[l].target_url) \notin visited

\* C3: no entry of a frontier, hence no fetch, has a depth above
\* config.max_depth; with max_depth = 0 at most the seed is claimed, and when
\* the seed's fetch gave a page (no error recorded) exactly one PageRecord,
\* of depth 0, is returned.
C3_NoFetchBeyondMaxDepth ==
    /\ \A i \in DOMAIN current_level : current_level[i].depth <= config.max_depth
    /\ config.max_depth = 0 =>
          /\ Len(claim_log) <= 1
          /\ Len(all_pages) <= 1
          /\ crawl_pc = "done" /\ claim_log # <<>> /\ all_errors = <<>> =>
                /\ Len(all_pages) = 1
                /\ all_pages[1].depth = 0
                /\ all_pages[1].url = claim_log[1]

\* max_depth = 0: the crawl is over with the seed's page and the links
\* harvested from it, none of which was fetched
C3_Witness ==
    /\ config.max_depth = 0
    /\ crawl_pc = "done"
    /\ Len(all_pages) = 1
    /\ all_links # <<>>
    /\ Cardinality(visited) = 1

\* task i got retryable statuses on its first k attempts, k < max_retries,
\* and then 200
RetriedThenOk(i) ==
    LET g == Gets(task[i].trace)
    IN  /\ task[i].pc = "done"
        /\ Len(g) >= 2
        /\ Len(g) <= config.max_retries
        /\ g[Len(g)] = 200
        /\ \A k \in 1..(Len(g) - 1) : g[k] \in RETRYABLE

\* C4: a URL whose fetch gets a retryable status on its first k attempts,
\* k < max_retries, and then 200 has exactly one PageRecord and no error in
\* what crawl() returns.
C4_RetryThenSuccess ==
    [][ProcessLevel =>
        \A i \in DOMAIN task : RetriedThenOk(i) =>
            /\ CountUrl(all_pages', task[i].normalized) = 1
            /\ CountUrl(all_errors', task[i].normalized) = 0]_vars

\* all max_retries attempts of task i got 503
Exhausted503(i) ==
    LET g == Gets(task[i].trace)
    IN  /\ task[i].pc = "done"
        /\ Claimed(i)
        /\ Len(g) = config.max_retries
        /\ \A k \in DOMAIN g : g[k] = 503

\* C5: when all max_retries attempts for a URL get 503, crawl() returns no
\* PageRecord and exactly one error for it, and every other URL claimed in
\* the same frontier still yields its own PageRecord or its own error.
C5_ExhaustionIsLocal ==
    [][ProcessLevel =>
        \A i \in DOMAIN task : Exhausted503(i) =>
            /\ CountUrl(all_pages', task[i].normalized) = 0
            /\ CountUrl(all_errors', task[i].normalized) = 1
            /\ \A j \in DOMAIN task : j # i /\ Claimed(j) =>
                  CountUrl(all_pages', task[j].normalized)
                  + CountUrl(all_errors', task[j].normalized) = 1]_vars

\* a level is complete in which one URL used up two attempts on 503 and a
\* sibling gave a page
C5_Witness ==
    \E i, j \in DOMAIN task :
        /\ i # j
        /\ Exhausted503(i)
        /\ config.max_retries >= 2
        /\ task[j].pc = "done"
        /\ task[j].out.page # <<>>

\* C6: a non-2xx status outside 429, 500, 502, 503 ends the fetch of its URL:
\* one client.get(), no backoff sleep.
C6_TerminalStatusNotRetried ==
    \A i \in DOMAIN task :
        LET g == Gets(task[i].trace)
        IN  (\E k \in DOMAIN g : g[k] = 404) =>
                Len(g) = 1 /\ Sleeps(task[i].trace) = <<>>

\* C7: _fetch_with_retry never raises to fetch_one: it returns a response or
\* None on every outcome.
C7_FetcherNeverRaises ==
    \A i \in DOMAIN task : task[i].fetch # "raised"

\* C8: crawl() terminates and returns, whatever the link graph and the
\* outcomes of the fetches.
C8_Terminates == <>(crawl_pc = "done")

\* the crawl returned pages and errors: a URL failed and the run went on
C8_Witness ==
    /\ crawl_pc = "done"
    /\ Len(all_pages) >= 2
    /\ all_errors # <<>>

\* C9: at most config.concurrency tasks are inside "async with sem" (in the
\* request delay, in client.get() or in a backoff sleep), and the gate's
\* counter accounts for each of them.
C9_GateBound ==
    /\ Cardinality(Holders) <= config.concurrency
    /\ sem_value = config.concurrency - Cardinality(Holders)

\* the gate is full while a task waits for a slot
C9_Witness ==
    /\ Cardinality(Holders) = config.concurrency
    /\ waiters # <<>>

\* the URLs a level's result enqueues with page url as their parent
EnqueuedFrom(level, url) ==
    {level[k].url : k \in {n \in DOMAIN level : level[n].parent = url}}

\* C10: the URLs a page adds to the next frontier are among the first
\* max_links_per_page entries of its followable list, every such entry not
\* yet visited is in the next frontier, and a page at max_depth adds none.
C10_TruncateThenFilter ==
    [][ProcessLevel =>
        \A i \in DOMAIN task : task[i].out.page # <<>> =>
            LET url == task[i].out.page[1].url
                cand == Range(Take(task[i].out.followable,
                                   config.max_links_per_page))
                mine == EnqueuedFrom(current_level', url)
            IN  IF current_level[i].depth < config.max_depth
                THEN /\ mine \subseteq cand
                     /\ \A u \in cand \ visited :
                           \E k \in DOMAIN current_level' : current_level'[k].url = u
                ELSE mine = {}]_vars

\* the crawl is over; a page below max_depth had more links than
\* max_links_per_page, its first link led to the page itself (a visited URL)
\* and a later one was never claimed
C10_Witness ==
    /\ crawl_pc = "done"
    /\ config.max_links_per_page >= 1
    /\ \E k \in DOMAIN all_pages :
          LET mine == SelectSeq(all_links,
                                LAMBDA l : l.source_url = all_pages[k].url)
          IN  /\ all_pages[k].depth < config.max_depth
              /\ Len(mine) > config.max_links_per_page
              /\ mine[1].target_url = all_pages[k].url
              /\ normalize_url(mine[Len(mine)].target_url) \notin visited

\* the entries of all_links that page url harvested
LinksOf(url) == {all_links[l].target_url :
                    l \in {n \in DOMAIN all_links : all_links[n].source_url = url}}

\* C11: a PageRecord of depth 0 has no parent_url; a PageRecord of depth d > 0
\* has as parent_url the URL of a PageRecord of depth d - 1 of the output, and
\* that parent's harvested (followable) links include the record's own URL.
C11_ParentLinks ==
    \A k \in DOMAIN all_pages :
        IF all_pages[k].depth = 0 THEN all_pages[k].parent_url = None
        ELSE \E j \in DOMAIN all_pages :
                /\ all_pages[j].url = all_pages[k].parent_url
                /\ all_pages[j].depth = all_pages[k].depth - 1
                /\ all_pages[k].url \in LinksOf(all_pages[j].url)

\* C12: when the record of a parsed page fails validation, parse_page returns
\* no PageRecord but still returns the links it harvested and the followable
\* list.
C12_InvalidPageKeepsLinks ==
    call.fn = "parse_page" /\ call.ret.page = <<>> =>
        /\ call.ret.followable = LinkData[DocOf(call.soup)]
        /\ Len(call.ret.links) = Len(call.ret.followable)

\* C13: for a document without the body region parse_page returns no
\* PageRecord and no links.
C13_NoBodyNoRecord ==
    call.fn = "parse_page" /\ ~call.soup.hasBody =>
        call.ret.page = <<>> /\ call.ret.links = <<>>

\* C14: a seed that does not normalize to a canonical article URL is rejected
\* before the crawl changes any of its state: no task leaves its initial
\* position, and the crawl never ends by returning empty pages, links and
\* errors.
C14_BadSeedRejected ==
    normalize_url(config.start_url) = <<>> =>
        /\ task = NewTasks(current_level)
        /\ ~(/\ crawl_pc = "done"
             /\ all_pages = <<>> /\ all_links = <<>> /\ all_errors = <<>>)

\* the canonical target of an anchor, as the harvest computes it
TargetOf(node) == normalize_url(urljoin(WIKI_BASE, node.href))

\* the texts of the nodes that content cleaning leaves in the body region
KeptTexts(soup) == {soup.nodes[j].text :
                       j \in {n \in DOMAIN soup.nodes : ~soup.nodes[n].boxed}}

\* C15: every anchor of the body region that lies inside a region content
\* cleaning removes is in the link list parse_page returns, and its text is
\* not in the cleaned content (unless an anchor outside such a region has the
\* same text).
C15_RemovedRegionAnchors ==
    call.fn = "parse_page" =>
        \A k \in DOMAIN call.soup.nodes : call.soup.nodes[k].boxed =>
            /\ \E l \in DOMAIN call.ret.links :
                  call.ret.links[l].target_url = TargetOf(call.soup.nodes[k])
            /\ \/ call.soup.nodes[k].text \in KeptTexts(call.soup)
               \/ call.soup.nodes[k].text \notin Range(call.content)

\* C16: normalize_url is idempotent: normalizing what normalize_url returned
\* gives the same string, for every input.
C16_NormalizeIdempotent ==
    call.fn = "normalize_url" => call.again = call.ret

\* the part of a URL after https://en.wikipedia.org/wiki/
SlugOf(url) == Slice(url, Len(WIKI_BASE \o WIKI_PREFIX) + 1, Len(url))

\* the slug begins with a skip-listed namespace prefix, colon included
InSkippedNamespace(url) ==
    /\ Len(SlugOf(url)) >= 2
    /\ SlugOf(url)[1] \in SKIP_PREFIXES
    /\ SlugOf(url)[2] = ":"

\* C17: is_followable is false for the empty string, for a URL not under
\* https://en.wikipedia.org/wiki/ and for a canonical URL whose slug begins
\* with a skip-listed prefix (compared case-sensitively); it is true for every
\* other canonical article URL.
C17_FollowableExactly ==
    call.fn = "is_followable" =>
        LET under == StartsWith(call.url, WIKI_BASE \o WIKI_PREFIX)
            canonical == normalize_url(call.url) = call.url
        IN  /\ call.url = <<>> => ~call.ret
            /\ ~under => ~call.ret
            /\ canonical /\ under /\ InSkippedNamespace(call.url) => ~call.ret
            /\ canonical /\ under /\ ~InSkippedNamespace(call.url) => call.ret

\* is_followable was asked about the canonical URL of an article whose slug
\* is a skip-listed prefix in lower case, and said yes
C17_Witness ==
    /\ call.fn = "is_followable"
    /\ call.url = Article("file") \o <<":", "S">>
    /\ normalize_url(call.url) = call.url
    /\ call.ret

\* C18: PageData accepts a candidate exactly when its title is non-empty, its
\* word count is >= 0, its URL is non-empty and its depth is in
\* 0..config.max_depth.
C18_ValidatorExactly ==
    call.fn = "PageData" =>
        (call.ret <=> /\ call.title # <<>>
                      /\ call.word_count >= 0
                      /\ call.url # <<>>
                      /\ call.depth \in 0..config.max_depth)

\* C19: what _clean_text returns holds no citation marker [n], no bracketed
\* 'citation needed' in any letter case, and no leading, trailing or repeated
\* whitespace, for every input text.
C19_CleanedIsClean ==
    call.fn = "clean_text" =>
        /\ \A a, b \in DOMAIN call.ret : ~MarkerAt(call.ret, a, b)
        /\ \A a \in DOMAIN call.ret : ~PhraseAt(call.ret, a)
        /\ call.ret # <<>> => call.ret[1] # " " /\ call.ret[Len(call.ret)] # " "
        /\ \A a \in 1..(Len(call.ret) - 1) :
              ~(call.ret[a] = " " /\ call.ret[a + 1] = " ")

\* the URLs of the rows of production.pages after the call
ProductionUrls == Range([k \in DOMAIN call.ret.production_pages |->
                            call.ret.production_pages[k].url])

\* C20: after load_to_db, staging holds every page and link passed in,
\* production.pages holds exactly the staging pages that have a title and a
\* content longer than min_content_length, and production.page_links holds
\* exactly (each once) the staging links whose source and target are both URLs
\* of production.pages.
C20_ProductionViews ==
    call.fn = "load_to_db" =>
        /\ call.ret.staging_pages = call.pages
        /\ call.ret.staging_page_links = call.links
        /\ Range(call.ret.production_pages) =
              {row \in Range(call.pages) :
                  row.title # None /\ Len(row.content) > call.min_content_length}
        /\ Len(call.ret.production_pages) =
              Cardinality(Range(call.ret.production_pages))
        /\ \A pl \in DOMAIN call.links :
              Cardinality({r \in call.ret.production_page_links : r[1] = pl}) =
                 IF /\ call.links[pl].source_url \in ProductionUrls
                    /\ call.links[pl].target_url \in ProductionUrls
                 THEN 1 ELSE 0

\* load_to_db ran with the default minimum of 50: a page whose content is
\* exactly 50 long stayed out of production.pages, a page with 51 is in it,
\* one link of staging is in production.page_links and one is not
C20_Witness ==
    /\ call.fn = "load_to_db"
    /\ call.min_content_length = DEFAULT_MIN_CONTENT_LENGTH
    /\ \E row \in Range(call.pages) :
          /\ Len(row.content) = DEFAULT_MIN_CONTENT_LENGTH
          /\ row \notin Range(call.ret.production_pages)
    /\ \E row \in Range(call.ret.production_pages) :
          Len(row.content) = DEFAULT_MIN_CONTENT_LENGTH + 1
    /\ Cardinality(call.ret.production_page_links) = 1
    /\ Len(call.ret.staging_page_links) = 2

\* the number of client.get() calls among the first k entries of a trace
GetsBefore(trace, k) ==
    Cardinality({j \in 1..(k - 1) : trace[j][1] = "get"})

\* C21: _fetch_with_retry makes at most max_retries GET attempts; after a
\* failed attempt number i (from 0) that is not the last allowed one it sleeps
\* 2^i and then makes the next attempt, whatever the failure was; a sleep
\* happens nowhere else; after the failed last allowed attempt it does not
\* sleep and raises the error of that attempt.
C21_BackoffSchedule ==
    call.fn = "fetch_with_retry" =>
        LET trace == call.ret.trace
            last == call.max_retries - 1
        IN  /\ Len(Gets(trace)) <= call.max_retries
            /\ \A k \in DOMAIN trace :
                  LET i == GetsBefore(trace, k)
                  IN  /\ trace[k][1] = "get" /\ trace[k][2] # 200 /\ i < last =>
                            /\ k + 2 <= Len(trace)
                            /\ trace[k + 1] = <<"sleep", 2 ^ i>>
                            /\ trace[k + 2][1] = "get"
                      /\ trace[k][1] = "get" /\ trace[k][2] # 200 /\ i = last =>
                            /\ k = Len(trace)
                            /\ call.ret.result = "raised"
                            /\ call.ret.error = <<[attempt |-> i, status |-> trace[k][2]]>>
                      /\ trace[k][1] = "sleep" =>
                            k > 1 /\ trace[k - 1][1] = "get" /\ trace[k - 1][2] # 200

\* _fetch_with_retry ran with max_retries = 4 against a server that answered
\* 503, a transport error, 404 and 503: it slept 1, 2 and 4 and raised
C21_Witness ==
    /\ call.fn = "fetch_with_retry"
    /\ call.max_retries = 4
    /\ Gets(call.ret.trace) = <<503, 0, 404, 503>>
    /\ Sleeps(call.ret.trace) = <<1, 2, 4>>
    /\ call.ret.result = "raised"

\* the depth of the level whose tasks exist; -1 after the last level
LevelDepth == IF current_level = <<>> THEN -1 ELSE current_level[1].depth

\* C22: the fetch tasks that exist are those of one level, all of one depth;
\* the next frontier is computed, and the pages of the level are appended,
\* only in a step taken when every task of the level is done, and the tasks of
\* the new level (one depth deeper) have not started in the state it leads to.
C22_LevelBarrier ==
    /\ [](/\ DOMAIN task = DOMAIN current_level
          /\ \A i \in DOMAIN current_level : current_level[i].depth = LevelDepth)
    /\ [][current_level' # current_level \/ all_pages' # all_pages =>
            /\ \A i \in DOMAIN task : task[i].pc = "done"
            /\ current_level' # <<>> => current_level'[1].depth = LevelDepth + 1
            /\ \A i \in DOMAIN task' : task'[i].pc = "pending"]_vars

\* the two tasks of depth 1 have completed with a page each, one of them
\* after a retry, and a task of depth 2 is at its client.get()
C22_Witness ==
    /\ LevelDepth = 2
    /\ Cardinality({k \in DOMAIN all_pages : all_pages[k].depth = 1}) = 2
    /\ failures >= 1
    /\ \E i \in DOMAIN task : task[i].pc = "get"

\* The crawl run one task after another, as a function of the per-URL fetch
\* outcomes alone.  The outcome of a URL is read off the output: whether it
\* gave a page, and the links that page holds, in harvest order.
HasPage(url) == \E k \in DOMAIN all_pages : all_pages[k].url = url

LinkSeqOf(url) == SelectSeq(all_links, LAMBDA l : l.source_url = url)

RefTargets(url) ==
    Let(LinkSeqOf(url), LAMBDA ls : [k \in DOMAIN ls |-> ls[k].target_url])

\* the entries of a frontier that claim their URL, taken in frontier order
RECURSIVE RefClaims(_, _, _)
RefClaims(level, seen, acc) ==
    IF level = <<>> THEN [claimed |-> acc, seen |-> seen]
    ELSE
    Let(Head(level), LAMBDA e :
    Let(Normalized[e.url], LAMBDA n :
        IF n = <<>> \/ n \in seen THEN RefClaims(Tail(level), seen, acc)
        ELSE Let([url |-> n, depth |-> e.depth, parent |-> e.parent], LAMBDA c :
                 RefClaims(Tail(level), seen \cup {n}, Append(acc, c)))))

\* the pages, the links and the next frontier of one level, its claimed
\* entries taken in frontier order
RECURSIVE RefLevel(_, _, _)
RefLevel(claimed, seen, acc) ==
    IF claimed = <<>> THEN acc
    ELSE
    Let(Head(claimed), LAMBDA c :
        IF ~HasPage(c.url) THEN RefLevel(Tail(claimed), seen, acc)
        ELSE
        Let(IF c.depth < config.max_depth
            THEN Take(RefTargets(c.url), config.max_links_per_page)
            ELSE <<>>, LAMBDA cand :
        Let({acc.frontier[k].url : k \in DOMAIN acc.frontier}, LAMBDA queued :
        Let(Keep(cand, {k \in DOMAIN cand :
                           /\ cand[k] \notin seen
                           /\ cand[k] \notin queued
                           /\ \A j \in 1..(k - 1) : cand[j] # cand[k]}),
            LAMBDA new :
        Let([pages |-> Append(acc.pages, [url |-> c.url, depth |-> c.depth,
                                          parent_url |-> c.parent]),
             links |-> acc.links \o LinkSeqOf(c.url),
             frontier |-> acc.frontier \o
                 [k \in DOMAIN new |->
                     [url |-> new[k], depth |-> c.depth + 1, parent |-> c.url]]],
            LAMBDA acc1 : RefLevel(Tail(claimed), seen, acc1))))))

\* level after level, up to the level of depth upto (every level when -1)
RECURSIVE RefCrawl(_, _, _, _, _)
RefCrawl(level, seen, pages, links, upto) ==
    IF level = <<>> \/ level[1].depth = upto
    THEN [pages |-> pages, links |-> links, frontier |-> level]
    ELSE
    Let(RefClaims(level, seen, <<>>), LAMBDA c :
    Let(RefLevel(c.claimed, c.seen,
                 [pages |-> pages, links |-> links, frontier |-> <<>>]),
        LAMBDA r : RefCrawl(r.frontier, c.seen, r.pages, r.links, upto)))

\* C23: the page stream with its order and parent_urls, the link stream and
\* the current frontier are those of the crawl run one task after another in
\* frontier order on the same per-URL outcomes, whatever order the concurrent
\* fetches of a level completed in; a target two pages of one level link to
\* has the earlier of them as its parent.
C23_OrderIndependent ==
    LET ref == RefCrawl(<<[url |-> config.start_url, depth |-> 0, parent |-> None]>>,
                        {}, <<>>, <<>>, LevelDepth)
    IN  /\ all_pages = ref.pages
        /\ all_links = ref.links
        /\ current_level = ref.frontier

\* the crawl is over, with a failed client.get() on the way; both pages of
\* depth 1 link to the same new target, which was fetched at depth 2 with the
\* earlier of the two as its parent
C23_Witness ==
    /\ crawl_pc = "done"
    /\ \E a, b, x \in DOMAIN all_pages :
          /\ a < b /\ all_pages[a].depth = 1 /\ all_pages[b].depth = 1
          /\ all_pages[x].depth = 2
          /\ all_pages[x].parent_url = all_pages[a].url
          /\ \E t \in LinksOf(all_pages[a].url) \cap LinksOf(all_pages[b].url) :
                normalize_url(t) = all_pages[x].url
    /\ failures >= 1

\* the frontier was built and none of its tasks has run
FrontierFresh == \A i \in DOMAIN task : task[i].pc = "pending"

\* C24: a frontier holds no URL twice, and when it is built none of its
\* entries is a URL that was already claimed (visited holds the claims of the
\* levels before it): fetch_one will claim every one of them.
C24_FrontierUnclaimed ==
    /\ \A i, j \in DOMAIN current_level :
          i # j => current_level[i].url # current_level[j].url
    /\ FrontierFresh =>
          \A i \in DOMAIN current_level :
              Normalized[current_level[i].url] \notin visited

\* the number of times url was claimed for fetching
Claims(url) == Cardinality({n \in DOMAIN claim_log : claim_log[n] = url})

\* C25: a URL whose fetch failed for good (its error is in the error list)
\* stays claimed, was claimed once in the whole run, and no task of a later
\* level fetches it, whatever links to it.
C25_FailedNotRefetched ==
    \A k \in DOMAIN all_errors : all_errors[k].kind = "fetch" =>
        /\ all_errors[k].url \in visited
        /\ Claims(all_errors[k].url) = 1
        /\ \A i \in DOMAIN task : task[i].normalized # all_errors[k].url

\* the crawl is over; the fetch of a URL the seed page links to (depth 1)
\* failed after its last attempt, and a page of depth 2, below max_depth,
\* holds a link to that URL among its first max_links_per_page
C25_Witness ==
    /\ crawl_pc = "done"
    /\ \E k \in DOMAIN all_errors, n \in DOMAIN all_pages :
          /\ all_errors[k].kind = "fetch"
          /\ all_errors[k].url \in
                Range(Take(RefTargets(all_pages[1].url), config.max_links_per_page))
          /\ all_errors[k].url # all_pages[1].url
          /\ all_pages[n].depth = 2
          /\ config.max_depth > 2
          /\ all_errors[k].url \in
                Range(Take(RefTargets(all_pages[n].url), config.max_links_per_page))

\* the canonical targets of the anchors of the body region whose href begins
\* with /wiki/, in document order, the first occurrence of each kept
HarvestOf(soup) ==
    LET wiki == SelectSeq(soup.nodes, LAMBDA n : StartsWith(n.href, WIKI_PREFIX))
        targets == [k \in DOMAIN wiki |-> TargetOf(wiki[k])]
    IN  Keep(targets, {k \in DOMAIN targets :
                          \A j \in 1..(k - 1) : targets[j] # targets[k]})

\* C26: when parse_page returns a record, its LinkRecords are one per
\* harvested target (every body anchor with a /wiki/ href, deduplicated, in
\* document order, targets in a non-followable namespace included), each with
\* the page as source, and the followable list is the subsequence of those
\* targets that pass is_followable.
C26_LinkRecordPerAnchor ==
    call.fn = "parse_page" /\ call.ret.page # <<>> =>
        /\ call.ret.links =
              [k \in DOMAIN HarvestOf(call.soup) |->
                  [source_url |-> call.url, target_url |-> HarvestOf(call.soup)[k]]]
        /\ call.ret.followable = SelectSeq(HarvestOf(call.soup), is_followable)

\* C27: a client.get() is made only by a task that holds a slot of the gate;
\* the first attempt of a task follows the request delay it slept after it got
\* the slot, every later one follows a backoff sleep, and from the delay to
\* its return the task never gives the slot up (each holder accounts for one
\* slot, and a holder never goes back to waiting).
C27_SlotHeldAcrossAttempts ==
    /\ [](sem_value >= 0 /\ sem_value + Cardinality(Holders) = config.concurrency)
    /\ [][\A i \in DOMAIN task \cap DOMAIN task' :
            /\ Len(task'[i].trace) > Len(task[i].trace) =>
                  task[i].pc = "get" /\ i \in Holders
            /\ task'[i].pc = "get" /\ task[i].pc # "get" =>
                  \/ task[i].pc = "delay" /\ task[i].trace = <<>>
                  \/ task[i].pc = "backoff"
            /\ i \in Holders => task'[i].pc \in {"delay", "get", "backoff", "done"}
            /\ task[i].pc \in {"get", "backoff"} => task'[i].pc # "delay"]_vars

\* a task is at its second client.get(), after a backoff sleep, while another
\* task of the level waits at the gate for the only slot
C27_Witness ==
    /\ config.concurrency = 1
    /\ \E i, j \in DOMAIN task :
          /\ task[i].pc = "get" /\ task[i].attempt = 1
          /\ Sleeps(task[i].trace) = <<1>>
          /\ task[j].pc = "waiting"

\* C28 as stated: before any task of a call is dispatched, visited holds
\* exactly the canonical URL of the seed, and pages, links and errors are
\* empty.
C28_SeedPreInserted ==
    LevelDepth = 0 /\ FrontierFresh =>
        /\ visited = {Normalized[config.start_url]}
        /\ all_pages = <<>> /\ all_links = <<>> /\ all_errors = <<>>

\* C28 as amended: in every call of crawl, the first or a later one, visited
\* is empty before any task is dispatched, and pages, links and errors are
\* empty; while the seed's level runs visited holds nothing but the canonical
\* URL of the seed, which it holds exactly from the moment the seed's task has
\* claimed it.
C28_FreshState ==
    LevelDepth = 0 =>
        /\ all_pages = <<>> /\ all_links = <<>> /\ all_errors = <<>>
        /\ FrontierFresh => visited = {}
        /\ visited \subseteq {Normalized[config.start_url]} \ {<<>>}
        /\ Claimed(1) <=> visited = {Normalized[config.start_url]}

\* the seed's task has claimed the seed and is at its second client.get()
C28_Witness ==
    /\ LevelDepth = 0
    /\ task[1].pc = "get" /\ task[1].attempt = 1
    /\ visited = {Normalized[config.start_url]}

\* C29: after a second load_to_db on a database that an earlier call loaded,
\* the call has not failed, both staging tables exist, staging.pages holds
\* exactly the rows of the second page list and staging.page_links exactly
\* those of the second link list (both empty when the lists are empty).
C29_ReloadReplaces ==
    call.fn = "load_twice" =>
        /\ ~call.ret.raised
        /\ DOMAIN call.ret.tab = {"staging.pages", "staging.page_links"}
        /\ call.ret.tab["staging.pages"] = call.pages
        /\ call.ret.tab["staging.page_links"] = call.links

\* a database loaded with two pages and a link was loaded again with empty
\* lists: both staging tables are there and empty
C29_Witness ==
    /\ call.fn = "load_twice"
    /\ Len(call.first_pages) = 2 /\ Len(call.first_links) = 1
    /\ call.pages = <<>> /\ call.links = <<>>
    /\ call.ret.tab = [t \in {"staging.pages", "staging.page_links"} |-> <<>>]

\* the messages of the error list that name url
ErrorsOf(url) == {k \in DOMAIN all_errors : all_errors[k].url = url}

\* C30: a fetch_one task that claimed its URL returns exactly one of a
\* PageRecord for that URL or one error message naming it, and a task that
\* claimed nothing returns neither; with max_retries = 0 the claimed task
\* makes no GET and returns the "no response" error; when crawl() returns,
\* every visited URL has exactly one page or exactly one message, never
\* both, every page and message belongs to a visited URL, and
\* |visited| = |pages| + |errors|.
C30_OneOutcomePerClaim ==
    /\ \A i \in DOMAIN task :
          task[i].pc = "done" =>
             Let(task[i].out, LAMBDA o :
                 IF Claimed(i)
                 THEN /\ Len(o.page) + Len(o.errs) = 1
                      /\ \A k \in DOMAIN o.page : o.page[k].url = task[i].normalized
                      /\ \A k \in DOMAIN o.errs : o.errs[k].url = task[i].normalized
                      /\ config.max_retries = 0 =>
                            /\ Gets(task[i].trace) = <<>>
                            /\ o.errs =
                                 <<[kind |-> "no_response", url |-> task[i].normalized]>>
                 ELSE o.page = <<>> /\ o.errs = <<>>)
    /\ crawl_pc = "done" =>
          /\ \A u \in visited :
                CountUrl(all_pages, u) + Cardinality(ErrorsOf(u)) = 1
          /\ \A k \in DOMAIN all_pages : all_pages[k].url \in visited
          /\ \A k \in DOMAIN all_errors : all_errors[k].url \in visited
          /\ Cardinality(visited) = Len(all_pages) + Len(all_errors)

\* a crawl has returned with two pages and one failed fetch among three
\* visited URLs
C30_Witness ==
    /\ crawl_pc = "done"
    /\ Cardinality(visited) = 3
    /\ Len(all_pages) = 2
    /\ \E k \in DOMAIN all_errors : all_errors[k].kind = "fetch"

\* a crawl with max_retries = 0 has returned: the seed was claimed, no GET
\* was made and one error is recorded
C30_WitnessNoRetries ==
    /\ crawl_pc = "done"
    /\ config.max_retries = 0
    /\ Cardinality(visited) = 1
    /\ all_pages = <<>> /\ Len(all_errors) = 1

\* C31: every LinkRecord of the link stream has the URL of a PageRecord of
\* the page stream as its source_url, and no (source_url, target_url) pair
\* occurs twice in the link stream; at every moment of the crawl, and so when
\* crawl() returns.
C31_LinksOfPagesOnce ==
    /\ \A k \in DOMAIN all_links : HasPage(all_links[k].source_url)
    /\ \A j, k \in DOMAIN all_links :
          (/\ all_links[j].source_url = all_links[k].source_url
           /\ all_links[j].target_url = all_links[k].target_url) => j = k

\* crawl() has returned a link stream where one page has two links, two
\* pages link to the same target, and a visited URL gave an error and
\* therefore has no link
C31_Witness ==
    /\ crawl_pc = "done"
    /\ \E j, k \in DOMAIN all_links :
          /\ j # k
          /\ all_links[j].source_url = all_links[k].source_url
    /\ \E j, k \in DOMAIN all_links :
          /\ all_links[j].source_url # all_links[k].source_url
          /\ all_links[j].target_url = all_links[k].target_url
    /\ all_errors # <<>>

\* C32: when the outputs of a level are aggregated, every link that
\* parse_page returned for an accepted page, one per harvested target and in
\* harvest order, is in the link stream afterwards, whatever
\* max_links_per_page is (0 included) and also for a page at depth max_depth;
\* the links the stream held before stay at its front.
C32_LimitSparesLinks ==
    [][(crawl_pc = "gather" /\ GatherDone) =>
          /\ Len(all_links') >= Len(all_links)
          /\ SubSeq(all_links', 1, Len(all_links)) = all_links
          /\ \A i \in DOMAIN task :
                task[i].out.page # <<>> =>
                   Let(task[i].out, LAMBDA o :
                   Let(SelectSeq(all_links',
                                 LAMBDA l : l.source_url = o.page[1].url),
                       LAMBDA ls :
                       /\ ls = o.links
                       /\ [k \in DOMAIN ls |-> ls[k].target_url] = o.followable))
      ]_vars

\* crawl() has returned with max_depth = 0 and max_links_per_page = 0: the
\* one page is at depth max_depth, nothing was followed, and both of its
\* links are in the link stream
C32_Witness ==
    /\ crawl_pc = "done"
    /\ config.max_depth = 0
    /\ config.max_links_per_page = 0
    /\ Len(all_pages) = 1
    /\ Len(all_links) = 2
    /\ Cardinality(visited) = 1

\* C33: at every level barrier and when crawl() has returned, all
\* config.concurrency slots are free and no task waits at the gate; a task
\* that is skipped goes from its start to its end without a slot and without
\* waiting for one; a task that holds a slot and ends, whatever its outcome,
\* gives back that one slot (to the gate, or to the task that waited
\* longest), and a task that has ended never holds a slot again.
C33_SlotsNeverLeak ==
    /\ [](GatherDone => sem_value = config.concurrency /\ waiters = <<>>)
    /\ [][~GatherDone =>
            \A i \in DOMAIN task :
               /\ (task[i].pc = "pending" /\ task'[i].pc = "done") =>
                     /\ ~Claimed(i)'
                     /\ sem_value' = sem_value
                     /\ waiters' = waiters
               /\ (i \in Holders /\ task'[i].pc = "done") =>
                     /\ task'[i].out.page # <<>> \/ task'[i].out.errs # <<>>
                     /\ IF waiters = <<>>
                        THEN sem_value' = sem_value + 1 /\ Holders' = Holders \ {i}
                        ELSE /\ sem_value' = sem_value
                             /\ waiters' = Tail(waiters)
                             /\ Holders' = (Holders \ {i}) \cup {Head(waiters)}
               /\ task[i].pc = "done" => task'[i].pc = "done"
      ]_vars

\* a level barrier with all slots free: in this level one task returned a
\* page and one was skipped, and a fetch that ended with an exception is in
\* the error list
C33_Witness ==
    /\ crawl_pc = "gather"
    /\ GatherDone
    /\ sem_value = config.concurrency
    /\ \E i \in DOMAIN task : task[i].out.page # <<>>
    /\ \E i \in DOMAIN task : ~Claimed(i)
    /\ \E k \in DOMAIN all_errors : all_errors[k].kind = "fetch"

====
